---- MODULE Spec2Model ----
(***************************************************************************)
(* A model of the hex/ascii viewer of src/main.rs: the App object (byte    *)
(* buffer, hex rows, ascii rows, blueprint), its methods open_file,        *)
(* move_up and move_down, and the event loop of run_app.                   *)
(*                                                                         *)
(* A char is its Unicode scalar value and a String is a sequence of chars. *)
(* A row (one Spans value) is a record [text, lo, hi]: the String pushed   *)
(* by open_file, and the half-open span [lo, hi) of buffer positions that  *)
(* were drained while that String was built.                               *)
(***************************************************************************)
EXTENDS Integers, Sequences, FiniteSets, TLC

\* Largest file length (in bytes) given to open_file.
MaxLen == 64

\* Largest explicit rotation amount given to move_up / move_down.
MaxShift == 5

\* Option<T>: None is the empty sequence and Some(x) the sequence of x alone.
None == <<>>

Some(x) == <<x>>

(***************************************************************************)
(* Files.  The byte at position i (0-based) of the file with seed s is     *)
(* (s + i) mod 256: seed 0 is the buffer "values 0, 1, 2, ..." and the     *)
(* other seed crosses the printable boundary 0x7E / 0x7F.                  *)
(***************************************************************************)
Seeds == {0, 100}

FileBytes(len, seed) == [i \in 1..len |-> (seed + i - 1) % 256]

Buffers == {FileBytes(len, seed) : len \in 0..MaxLen, seed \in Seeds}

\* A file argument: whether each of the two std::fs::read calls succeeds,
\* whether ProgramBlueprint::new accepts the bytes, and the bytes.
FileArgs ==
  [read1 : BOOLEAN, blueprint_ok : BOOLEAN, read2 : BOOLEAN, bytes : Buffers]

(***************************************************************************)
(* Per-byte rendering.                                                     *)
(***************************************************************************)
\* ' '
SPACE == 32

\* '.'
DOT == 46

\* The width of one group: vc.drain(..8) and vc.len() < 8.
GroupLen == 8

\* The chars '0'..'9', 'A'..'F' of the {:X} format.
hex_digit(d) == IF d < 10 THEN 48 + d ELSE 55 + d

\* format!("{:02X} ", bt)
format_hex(bt) == <<hex_digit(bt \div 16), hex_digit(bt % 16), SPACE>>

\* A change of ascii_char: the range excludes its upper end, 0x20..0x7E.
ascii_char_exclusive(bt) == IF bt >= 32 /\ bt < 126 THEN bt ELSE DOT

\* match bt { 0x20..=0x7E => bt as char, _ => '.' }
ascii_char(bt) == IF bt >= 32 /\ bt <= 126 THEN bt ELSE DOT

\* The for loop over a drained group, hex side: hex_str.push_str(...) per byte.
RECURSIVE render_hex(_)
render_hex(group) ==
  IF group = <<>> THEN <<>>
  ELSE format_hex(Head(group)) \o render_hex(Tail(group))

\* The for loop over a drained group, ascii side: ascii_str.push(...) per byte.
RECURSIVE render_ascii(_)
render_ascii(group) ==
  IF group = <<>> THEN <<>>
  ELSE <<ascii_char(Head(group))>> \o render_ascii(Tail(group))

\* hex_str.push_str("   ")
hex_spacer == <<SPACE, SPACE, SPACE>>

\* ascii_str.push(' ')
ascii_spacer == <<SPACE>>

(***************************************************************************)
(* The formatting loop of open_file.                                       *)
(***************************************************************************)
\* vc.drain(..n): Vec::drain panics when the range end exceeds the length;
\* otherwise it yields the first n elements and leaves the rest in vc.
drain(vc, n) ==
  IF n > Len(vc)
  THEN [ok |-> FALSE, taken |-> <<>>, rest |-> vc]
  ELSE [ok |-> TRUE, taken |-> SubSeq(vc, 1, n), rest |-> SubSeq(vc, n + 1, Len(vc))]

\* A change of take_group: the range is one short, drain(..7).
take_group_one_short(vc) == drain(vc, GroupLen - 1)

\* for bt in vc.drain(..8)
take_group(vc) == drain(vc, GroupLen)

\* A change of tail_is_short: the comparison is <= instead of <.
tail_is_short_or_equal(vc) == Len(vc) <= GroupLen

\* if vc.len() < 8, after the first group and the spacer
tail_is_short(vc) == Len(vc) < GroupLen

\* A change of push_rows: the ascii push is left out.
push_rows_hex_only(hex, ascii, hex_str, ascii_str, lo, hi) ==
  [hex   |-> Append(hex, [text |-> hex_str, lo |-> lo, hi |-> hi]),
   ascii |-> ascii]

\* self.file_as_hex.push(Spans::from(hex_str));
\* self.file_as_ascii.push(Spans::from(ascii_str));
push_rows(hex, ascii, hex_str, ascii_str, lo, hi) ==
  [hex   |-> Append(hex, [text |-> hex_str, lo |-> lo, hi |-> hi]),
   ascii |-> Append(ascii, [text |-> ascii_str, lo |-> lo, hi |-> hi])]

\* while !vc.is_empty() { ... }: vc is what is left of the buffer, pos the
\* number of bytes drained so far, hex and ascii the two row vectors.
\* The result carries the fault that stopped the loop, if any.
RECURSIVE format_loop(_, _, _, _)
format_loop(vc, pos, hex, ascii) ==
  IF vc = <<>>
  THEN [hex |-> hex, ascii |-> ascii, fault |-> "none"]
  ELSE
    LET d1 == take_group(vc) IN
    IF ~d1.ok
    THEN [hex |-> hex, ascii |-> ascii, fault |-> "drain_range"]
    ELSE
      LET hex1 == render_hex(d1.taken) \o hex_spacer
          ascii1 == render_ascii(d1.taken) \o ascii_spacer
      IN
      IF tail_is_short(d1.rest)
      THEN
        LET p == push_rows(hex, ascii, hex1, ascii1, pos, pos + Len(d1.taken))
        IN [hex |-> p.hex, ascii |-> p.ascii, fault |-> "none"]
      ELSE
        LET d2 == take_group(d1.rest) IN
        IF ~d2.ok
        THEN [hex |-> hex, ascii |-> ascii, fault |-> "drain_range"]
        ELSE
          LET hex2 == hex1 \o render_hex(d2.taken)
              ascii2 == ascii1 \o render_ascii(d2.taken)
              p == push_rows(hex, ascii, hex2, ascii2, pos,
                             pos + Len(d1.taken) + Len(d2.taken))
          IN format_loop(d2.rest, pos + Len(d1.taken) + Len(d2.taken),
                         p.hex, p.ascii)

(***************************************************************************)
(* State.                                                                  *)
(***************************************************************************)
VARIABLES
  file_as_bytes,   \* App.file_as_bytes: Vec<u8>
  file_blueprint,  \* App.file_blueprint: Option<ProgramBlueprint>
  file_as_hex,     \* App.file_as_hex: Vec<Spans>
  file_as_ascii,   \* App.file_as_ascii: Vec<Spans>
  pc,              \* "main", "draw", "read", "done" in the program;
                   \* "new", "loaded", "reloaded" when App's methods are
                   \* called directly
  fault,           \* "none", or the panic that ended the process
  res,             \* what main / run_app returned: "none", "Ok", "Err"
  screen,          \* the rows handed to the last terminal.draw, or None
  calls,           \* history: the last two method calls, each with the
                   \* rows as they were before it (latest last)
  streak,          \* history: the current run of Up (or of Down) keys
  event,           \* history: the last event run_app read, or the io error
                   \* that ended main or run_app ("none" before any)
  draws,           \* history: the draws completed since the last event read
  loaded           \* history: the rows as the last open_file left them

app == <<file_as_bytes, file_blueprint, file_as_hex, file_as_ascii>>

vars ==
  <<file_as_bytes, file_blueprint, file_as_hex, file_as_ascii,
    pc, fault, res, screen, calls, streak, event, draws, loaded>>

NoStreak == [dir |-> "none", count |-> 0, hex0 |-> <<>>, ascii0 |-> <<>>, firsts |-> <<>>]

\* App::new(), before main or a caller does anything with it.
new ==
  /\ file_as_bytes = <<>>
  /\ file_as_hex = <<>>
  /\ file_as_ascii = <<>>
  /\ file_blueprint = None
  /\ fault = "none"
  /\ res = "none"
  /\ screen = None
  /\ calls = <<>>
  /\ streak = NoStreak
  /\ event = "none"
  /\ draws = 0
  /\ loaded = None

(***************************************************************************)
(* App's methods.  Each is the whole method: what it does to the four      *)
(* fields of App and whether it panics.                                    *)
(***************************************************************************)
\* [T]::rotate_right(k), for k <= len: the last k elements move to the front.
rotate_right(s, k) ==
  SubSeq(s, Len(s) - k + 1, Len(s)) \o SubSeq(s, 1, Len(s) - k)

\* [T]::rotate_left(mid), for mid <= len: the first mid elements move to the back.
rotate_left(s, mid) ==
  SubSeq(s, mid + 1, Len(s)) \o SubSeq(s, 1, mid)

\* number.unwrap_or(1)
unwrap_or_1(number) == IF number = None THEN 1 ELSE number[1]

\* A change of move_up: it rotates the way move_down does.
move_up_rotates_left(number) ==
  /\ LET n == unwrap_or_1(number) IN
     IF n > Len(file_as_ascii)
     THEN /\ fault' = "rotate_assert"
          /\ UNCHANGED <<file_as_ascii, file_as_hex>>
     ELSE /\ file_as_ascii' = rotate_left(file_as_ascii, n)
          /\ IF n > Len(file_as_hex)
             THEN fault' = "rotate_assert" /\ UNCHANGED file_as_hex
             ELSE fault' = "none" /\ file_as_hex' = rotate_left(file_as_hex, n)
  /\ UNCHANGED <<file_as_bytes, file_blueprint>>

\* A change of move_up: scrolling that stops at the top.  Nothing moves
\* while the first row is the row of the buffer's first bytes.
move_up_clamped(number) ==
  /\ LET n == unwrap_or_1(number) IN
     IF n > Len(file_as_ascii)
     THEN /\ fault' = "rotate_assert"
          /\ UNCHANGED <<file_as_ascii, file_as_hex>>
     ELSE IF file_as_hex # <<>> /\ file_as_hex[1].lo = 0
     THEN /\ fault' = "none"
          /\ UNCHANGED <<file_as_ascii, file_as_hex>>
     ELSE /\ fault' = "none"
          /\ file_as_ascii' = rotate_right(file_as_ascii, n)
          /\ file_as_hex' = rotate_right(file_as_hex, n)
  /\ UNCHANGED <<file_as_bytes, file_blueprint>>

\* fn move_up(&mut self, number: Option<usize>).  rotate_right asserts
\* k <= self.len() and panics otherwise; the ascii vector is rotated first.
move_up(number) ==
  /\ LET n == unwrap_or_1(number) IN
     IF n > Len(file_as_ascii)
     THEN /\ fault' = "rotate_assert"
          /\ UNCHANGED <<file_as_ascii, file_as_hex>>
     ELSE /\ file_as_ascii' = rotate_right(file_as_ascii, n)
          /\ IF n > Len(file_as_hex)
             THEN fault' = "rotate_assert" /\ UNCHANGED file_as_hex
             ELSE fault' = "none" /\ file_as_hex' = rotate_right(file_as_hex, n)
  /\ UNCHANGED <<file_as_bytes, file_blueprint>>

\* A change of move_down: it rotates the way move_up does.
move_down_rotates_right(number) ==
  /\ LET n == unwrap_or_1(number) IN
     IF n > Len(file_as_ascii)
     THEN /\ fault' = "rotate_assert"
          /\ UNCHANGED <<file_as_ascii, file_as_hex>>
     ELSE /\ file_as_ascii' = rotate_right(file_as_ascii, n)
          /\ IF n > Len(file_as_hex)
             THEN fault' = "rotate_assert" /\ UNCHANGED file_as_hex
             ELSE fault' = "none" /\ file_as_hex' = rotate_right(file_as_hex, n)
  /\ UNCHANGED <<file_as_bytes, file_blueprint>>

\* A change of move_down: only the ascii vector is rotated.
move_down_ascii_only(number) ==
  /\ LET n == unwrap_or_1(number) IN
     IF n > Len(file_as_ascii)
     THEN /\ fault' = "rotate_assert"
          /\ UNCHANGED <<file_as_ascii, file_as_hex>>
     ELSE /\ file_as_ascii' = rotate_left(file_as_ascii, n)
          /\ fault' = "none"
          /\ UNCHANGED file_as_hex
  /\ UNCHANGED <<file_as_bytes, file_blueprint>>

\* fn move_down(&mut self, number: Option<usize>).  rotate_left asserts
\* mid <= self.len() and panics otherwise; the ascii vector is rotated first.
move_down(number) ==
  /\ LET n == unwrap_or_1(number) IN
     IF n > Len(file_as_ascii)
     THEN /\ fault' = "rotate_assert"
          /\ UNCHANGED <<file_as_ascii, file_as_hex>>
     ELSE /\ file_as_ascii' = rotate_left(file_as_ascii, n)
          /\ IF n > Len(file_as_hex)
             THEN fault' = "rotate_assert" /\ UNCHANGED file_as_hex
             ELSE fault' = "none" /\ file_as_hex' = rotate_left(file_as_hex, n)
  /\ UNCHANGED <<file_as_bytes, file_blueprint>>

\* fn parse_blueprint: both unwrap()s; the value is the panic, or "none".
parse_blueprint(file) ==
  IF ~file.read1 THEN "unwrap_read"
  ELSE IF ~file.blueprint_ok THEN "unwrap_blueprint"
  ELSE "none"

\* fn open_file(&mut self, file_name: &str)
open_file(file) ==
  IF parse_blueprint(file) # "none"
  THEN /\ fault' = parse_blueprint(file)
       /\ UNCHANGED app
  ELSE /\ file_blueprint' = Some("blueprint")
       /\ IF ~file.read2
          THEN /\ fault' = "none"
               /\ UNCHANGED <<file_as_bytes, file_as_hex, file_as_ascii>>
          ELSE LET r == format_loop(file.bytes, 0, file_as_hex, file_as_ascii) IN
               /\ file_as_bytes' = file.bytes
               /\ file_as_hex' = r.hex
               /\ file_as_ascii' = r.ascii
               /\ fault' = r.fault

(***************************************************************************)
(* The program: main, then the loop of run_app.                            *)
(***************************************************************************)
Init == new /\ pc = "main"

\* After main's call of open_file (if any): the terminal set-up, each step
\* of which may return an io error that main returns.
enter_loop(setup_ok) ==
  IF fault' # "none" THEN pc' = pc /\ res' = res /\ event' = event
  ELSE IF setup_ok THEN pc' = "draw" /\ res' = res /\ event' = event
  ELSE pc' = "done" /\ res' = "Err" /\ event' = "setup_err"

\* main with no --file argument.
MainNoFile ==
  /\ pc = "main" /\ fault = "none"
  /\ UNCHANGED <<app, fault, screen, calls, streak, draws, loaded>>
  /\ \E setup_ok \in BOOLEAN : enter_loop(setup_ok)

\* main with --file: app.open_file(&file_name).
MainOpenFile ==
  /\ pc = "main" /\ fault = "none"
  /\ \E file \in FileArgs : open_file(file)
  /\ loaded' = Some([hex |-> file_as_hex', ascii |-> file_as_ascii'])
  /\ UNCHANGED <<screen, calls, streak, draws>>
  /\ \E setup_ok \in BOOLEAN : enter_loop(setup_ok)

\* terminal.draw(|f| ui(f, &app))?: ui clones both row vectors into the
\* two paragraphs.
Draw ==
  /\ pc = "draw" /\ fault = "none"
  /\ \E ok \in BOOLEAN :
       IF ok
       THEN /\ screen' = Some([hex |-> file_as_hex, ascii |-> file_as_ascii])
            /\ pc' = "read" /\ res' = res
            /\ draws' = draws + 1 /\ event' = event
       ELSE /\ pc' = "done" /\ res' = "Err"
            /\ event' = "draw_err"
            /\ UNCHANGED <<screen, draws>>
  /\ UNCHANGED <<app, fault, calls, streak, loaded>>

\* event::read()? returns an io error.
ReadFail ==
  /\ pc = "read" /\ fault = "none"
  /\ pc' = "done" /\ res' = "Err"
  /\ event' = "read_err"
  /\ UNCHANGED <<app, fault, screen, calls, streak, draws, loaded>>

\* KeyCode::Char('q'): return Ok(())
KeyQuit ==
  /\ pc = "read" /\ fault = "none"
  /\ pc' = "done" /\ res' = "Ok"
  /\ event' = "q" /\ draws' = 0
  /\ UNCHANGED <<app, fault, screen, calls, streak, loaded>>

\* The run of single-step shifts in direction dir after one more of them;
\* a run that has gone once around starts again.
extend_streak(dir) ==
  IF fault' # "none" THEN streak
  ELSE IF streak.dir = dir /\ streak.count < Len(file_as_hex)
  THEN [streak EXCEPT !.count = @ + 1,
                      !.firsts = Append(@, file_as_hex'[1].lo)]
  ELSE [dir |-> dir, count |-> 1, hex0 |-> file_as_hex,
        ascii0 |-> file_as_ascii, firsts |-> <<file_as_hex'[1].lo>>]

\* A change of KeyUp: the Up key calls move_down.
KeyUp_moves_down ==
  /\ pc = "read" /\ fault = "none"
  /\ move_down(None)
  /\ pc' = IF fault' = "none" THEN "draw" ELSE pc
  /\ streak' = extend_streak("up")
  /\ event' = "Up" /\ draws' = 0
  /\ UNCHANGED <<res, screen, calls, loaded>>

\* KeyCode::Up: app.move_up(None)
KeyUp ==
  /\ pc = "read" /\ fault = "none"
  /\ move_up(None)
  /\ pc' = IF fault' = "none" THEN "draw" ELSE pc
  /\ streak' = extend_streak("up")
  /\ event' = "Up" /\ draws' = 0
  /\ UNCHANGED <<res, screen, calls, loaded>>

\* A change of KeyDown: after the shift the loop reads the next event
\* without drawing.
KeyDown_skips_draw ==
  /\ pc = "read" /\ fault = "none"
  /\ move_down(None)
  /\ pc' = pc
  /\ streak' = extend_streak("down")
  /\ event' = "Down" /\ draws' = 0
  /\ UNCHANGED <<res, screen, calls, loaded>>

\* KeyCode::Down: app.move_down(None)
KeyDown ==
  /\ pc = "read" /\ fault = "none"
  /\ move_down(None)
  /\ pc' = IF fault' = "none" THEN "draw" ELSE pc
  /\ streak' = extend_streak("down")
  /\ event' = "Down" /\ draws' = 0
  /\ UNCHANGED <<res, screen, calls, loaded>>

\* A change of OtherEvent: any other event ends the loop as 'q' does.
OtherEvent_quits ==
  /\ pc = "read" /\ fault = "none"
  /\ pc' = "done" /\ res' = "Ok"
  /\ event' \in {"other_key", "not_key"} /\ draws' = 0
  /\ UNCHANGED <<app, fault, screen, calls, streak, loaded>>

\* Any other key, and any event that is not Event::Key: nothing is done.
OtherEvent ==
  /\ pc = "read" /\ fault = "none"
  /\ pc' = "draw"
  /\ event' \in {"other_key", "not_key"} /\ draws' = 0
  /\ UNCHANGED <<app, fault, res, screen, calls, streak, loaded>>

Next ==
  \/ MainNoFile
  \/ MainOpenFile
  \/ Draw
  \/ ReadFail
  \/ KeyQuit
  \/ KeyUp
  \/ KeyDown
  \/ OtherEvent

Spec == Init /\ [][Next]_vars

(***************************************************************************)
(* App's methods called directly, with any rotation amount: a fresh App,   *)
(* at most one open_file, and any sequence of move_up / move_down.         *)
(***************************************************************************)
Numbers == {None} \cup {Some(n) : n \in 0..MaxShift}

InitApp == new /\ pc = "new"

\* The call history after a call of op(number) made in the current state.
record_call(op, number) ==
  LET c == [op |-> op, number |-> number,
            hex |-> file_as_hex, ascii |-> file_as_ascii]
  IN IF calls = <<>> THEN <<c>> ELSE <<calls[Len(calls)], c>>

\* The run of single-step shifts after a call that shifts by number.
streak_after(dir, number) ==
  IF fault' # "none" THEN streak
  ELSE IF unwrap_or_1(number) = 1 THEN extend_streak(dir)
  ELSE NoStreak

CallOpenFile ==
  /\ pc = "new" /\ fault = "none"
  /\ \E file \in FileArgs : open_file(file)
  /\ pc' = "loaded"
  /\ calls' = record_call("open_file", None)
  /\ streak' = IF fault' = "none" THEN NoStreak ELSE streak
  /\ loaded' = Some([hex |-> file_as_hex', ascii |-> file_as_ascii'])
  /\ UNCHANGED <<res, screen, event, draws>>

CallMoveUp ==
  /\ pc \in {"new", "loaded"} /\ fault = "none"
  /\ \E number \in Numbers :
       /\ move_up(number)
       /\ calls' = record_call("move_up", number)
       /\ streak' = streak_after("up", number)
  /\ UNCHANGED <<pc, res, screen, event, draws, loaded>>

CallMoveDown ==
  /\ pc \in {"new", "loaded"} /\ fault = "none"
  /\ \E number \in Numbers :
       /\ move_down(number)
       /\ calls' = record_call("move_down", number)
       /\ streak' = streak_after("down", number)
  /\ UNCHANGED <<pc, res, screen, event, draws, loaded>>

NextApp ==
  \/ CallOpenFile
  \/ CallMoveUp
  \/ CallMoveDown

SpecApp == InitApp /\ [][NextApp]_vars

(***************************************************************************)
(* open_file called twice on one App.                                      *)
(***************************************************************************)
CallOpenFileAgain ==
  /\ pc = "loaded" /\ fault = "none"
  /\ \E file \in FileArgs : open_file(file)
  /\ pc' = "reloaded"
  /\ calls' = record_call("open_file", None)
  /\ streak' = IF fault' = "none" THEN NoStreak ELSE streak
  /\ loaded' = Some([hex |-> file_as_hex', ascii |-> file_as_ascii'])
  /\ UNCHANGED <<res, screen, event, draws>>

NextReload ==
  \/ CallOpenFile
  \/ CallOpenFileAgain

SpecReload == InitApp /\ [][NextReload]_vars

(***************************************************************************)
(* open_file called on a new App with files of one or two groups that      *)
(* start at every byte value, so that every byte value is rendered.        *)
(***************************************************************************)
ByteFiles ==
  [read1 : {TRUE}, blueprint_ok : {TRUE}, read2 : {TRUE},
   bytes : {FileBytes(len, seed) : len \in {GroupLen, 2 * GroupLen},
                                   seed \in 0..255}]

CallOpenByteFile ==
  /\ pc = "new" /\ fault = "none"
  /\ \E file \in ByteFiles : open_file(file)
  /\ pc' = "loaded"
  /\ calls' = record_call("open_file", None)
  /\ loaded' = Some([hex |-> file_as_hex', ascii |-> file_as_ascii'])
  /\ UNCHANGED <<res, screen, streak, event, draws>>

SpecBytes == InitApp /\ [][CallOpenByteFile]_vars

(***************************************************************************)
(* Reading rows back.  These definitions state what a row's text says,     *)
(* independently of how open_file built it.                                *)
(***************************************************************************)
SPACER == 0 - 1

MALFORMED == 0 - 2

hex_value(c) ==
  IF c >= 48 /\ c <= 57 THEN c - 48
  ELSE IF c >= 65 /\ c <= 70 THEN c - 55
  ELSE MALFORMED

\* A hex text as tokens: a byte value for two hex digits and a space,
\* SPACER for three spaces, MALFORMED (and the end) for anything else.
RECURSIVE parse_hex(_)
parse_hex(text) ==
  IF text = <<>> THEN <<>>
  ELSE IF Len(text) < 3 THEN <<MALFORMED>>
  ELSE IF text[1] = SPACE /\ text[2] = SPACE /\ text[3] = SPACE
  THEN <<SPACER>> \o parse_hex(SubSeq(text, 4, Len(text)))
  ELSE IF hex_value(text[1]) >= 0 /\ hex_value(text[2]) >= 0 /\ text[3] = SPACE
  THEN <<hex_value(text[1]) * 16 + hex_value(text[2])>>
         \o parse_hex(SubSeq(text, 4, Len(text)))
  ELSE <<MALFORMED>>

is_byte(t) == t >= 0

\* The bytes a hex text encodes, in order.
hex_bytes(text) == SelectSeq(parse_hex(text), is_byte)

\* The character the ascii pane shows for a byte.
shown_as(b) == IF b \in 32..126 THEN b ELSE 46

\* The bytes of the buffer at positions lo .. hi - 1.
span_bytes(lo, hi) == SubSeq(file_as_bytes, lo + 1, hi)

\* An ascii text shows exactly the bytes bs: one character per byte, with
\* one space after the eighth byte.
ascii_shows(text, bs) ==
  /\ Len(bs) <= 2 * GroupLen
  /\ Len(text) = Len(bs) + (IF Len(bs) >= GroupLen THEN 1 ELSE 0)
  /\ \A i \in 1..Len(bs) :
       text[IF i <= GroupLen THEN i ELSE i + 1] = shown_as(bs[i])
  /\ Len(bs) >= GroupLen => text[GroupLen + 1] = SPACE

\* The hex row h and the ascii row a come from one and the same span of the
\* buffer, and each text encodes the bytes of that span.
row_paired(h, a) ==
  /\ h.lo = a.lo /\ h.hi = a.hi
  /\ h.lo < h.hi /\ h.hi <= Len(file_as_bytes)
  /\ hex_bytes(h.text) = span_bytes(h.lo, h.hi)
  /\ ascii_shows(a.text, span_bytes(a.lo, a.hi))

last_call == calls[Len(calls)]

\* The last call was open_file on an App that held no rows.
just_formatted ==
  /\ calls # <<>>
  /\ last_call.op = "open_file"
  /\ last_call.hex = <<>> /\ last_call.ascii = <<>>

\* The pair (h, a) is a row of 16 bytes: two groups of 8 with the spacer
\* between them, in the hex text and in the ascii text.
is_full_row(h, a) ==
  LET t == parse_hex(h.text) IN
  /\ Len(t) = 2 * GroupLen + 1
  /\ \A i \in 1..Len(t) : IF i = GroupLen + 1 THEN t[i] = SPACER ELSE is_byte(t[i])
  /\ h.hi - h.lo = 2 * GroupLen
  /\ Len(a.text) = 2 * GroupLen + 1
  /\ a.text[GroupLen + 1] = SPACE

\* The pair (h, a) is a row of a single group of 1 to 8 bytes: no byte
\* follows the group, in either text (a spacer may).
is_single_group_row(h, a) ==
  LET t == parse_hex(h.text)
      n == Len(hex_bytes(h.text))
  IN
  /\ n \in 1..GroupLen
  /\ \A i \in 1..n : is_byte(t[i])
  /\ Len(t) = n \/ (Len(t) = n + 1 /\ t[n + 1] = SPACER)
  /\ h.hi - h.lo = n
  /\ Len(a.text) \in {n, n + 1}

\* As is_single_group_row, and nothing at all follows the group.
is_bare_group_row(h, a) ==
  /\ is_single_group_row(h, a)
  /\ Len(parse_hex(h.text)) = Len(hex_bytes(h.text))
  /\ Len(a.text) = Len(hex_bytes(h.text))

\* The amount a recorded call asked for: 1 when it gave none.
amount(c) == IF c.number = <<>> THEN 1 ELSE c.number[1]

\* The sequence s with its last m elements moved to the front (m < Len(s)).
last_to_front(s, m) ==
  [i \in 1..Len(s) |-> s[((i - 1 - m + Len(s)) % Len(s)) + 1]]

\* The sequence s with its first m elements moved to the back (m < Len(s)).
first_to_back(s, m) ==
  [i \in 1..Len(s) |-> s[((i - 1 + m) % Len(s)) + 1]]

\* The elements of a sequence.
range(s) == {s[i] : i \in DOMAIN s}

RowIndices == DOMAIN file_as_hex \cap DOMAIN file_as_ascii

shifted(c) == c.op \in {"move_up", "move_down"}

(***************************************************************************)
(* Claims.                                                                 *)
(***************************************************************************)
\* C1: after open_file and after any sequence of move_up / move_down calls,
\* whatever their amounts and outcomes, the hex row vector and the ascii
\* row vector have the same length.
C1_SameLength == Len(file_as_hex) = Len(file_as_ascii)

\* A formatted store of several rows that a shift has just rearranged.
C1_Witness ==
  /\ fault = "none"
  /\ Len(calls) = 2
  /\ calls[1].op = "open_file"
  /\ shifted(calls[2])
  /\ Len(file_as_hex) >= 3
  /\ file_as_hex # calls[2].hex

\* C2: in every reachable state of the program, the hex row and the ascii
\* row at each index come from the identical span of the buffer, and their
\* texts encode the bytes of that span.
C2_Pairing ==
  /\ DOMAIN file_as_hex = DOMAIN file_as_ascii
  /\ \A i \in DOMAIN file_as_hex : row_paired(file_as_hex[i], file_as_ascii[i])

\* The event loop has rotated a store of several rows away from the order
\* open_file left it in.
C2_Witness ==
  /\ fault = "none"
  /\ pc = "draw"
  /\ streak.count >= 1
  /\ Len(file_as_hex) >= 3
  /\ file_as_hex[1].lo # 0

\* C3: with zero rows, the shifts issued by the Up and Down keys are no-ops
\* that do not fault: the program never panics in a rotation while both
\* row vectors are empty.
C3_EmptyShiftNoFault ==
  (file_as_hex = <<>> /\ file_as_ascii = <<>>) => fault # "rotate_assert"

\* C4: the formatting loop of open_file never asks a drain for more bytes
\* than remain in the buffer: no run ends in the drain's range panic.
C4_FormatterTotal == fault # "drain_range"

\* C5, as claimed: for every non-empty buffer that open_file formats to the
\* end, every row except the last is a row of 16 bytes and the last row is a
\* single group of 1 to 8 bytes.
C5_LastRowIsOneGroup ==
  (just_formatted /\ fault = "none" /\ file_as_bytes # <<>>) =>
    /\ Len(file_as_hex) = Len(file_as_ascii)
    /\ \A i \in RowIndices :
         IF i < Len(file_as_hex)
         THEN is_full_row(file_as_hex[i], file_as_ascii[i])
         ELSE is_single_group_row(file_as_hex[i], file_as_ascii[i])

\* C5, amended: for every non-empty buffer, every row open_file produced
\* except the last is a row of 16 bytes, and the last row is either a single
\* group of 1 to 8 bytes or a row of 16 bytes.
C5_RowShapes ==
  (just_formatted /\ file_as_bytes # <<>>) =>
    /\ Len(file_as_hex) = Len(file_as_ascii)
    /\ \A i \in RowIndices :
         \/ is_full_row(file_as_hex[i], file_as_ascii[i])
         \/ /\ i = Len(file_as_hex)
            /\ is_single_group_row(file_as_hex[i], file_as_ascii[i])

\* A buffer formatted to the end into several rows, the last of 16 bytes.
C5_Witness ==
  /\ just_formatted /\ fault = "none"
  /\ Len(file_as_hex) >= 2
  /\ is_full_row(file_as_hex[Len(file_as_hex)], file_as_ascii[Len(file_as_ascii)])

\* C6: a buffer of 16k + r bytes, 1 <= r <= 7, is formatted without fault
\* into k + 1 rows, k rows of 16 bytes and a last row of the remaining r
\* bytes as a single group with nothing after it.
C6_ShortTailRow ==
  (just_formatted /\ Len(file_as_bytes) % (2 * GroupLen) \in 1..(GroupLen - 1)) =>
    LET k == Len(file_as_bytes) \div (2 * GroupLen) IN
    /\ fault = "none"
    /\ Len(file_as_hex) = k + 1
    /\ Len(file_as_ascii) = k + 1
    /\ \A i \in 1..k : is_full_row(file_as_hex[i], file_as_ascii[i])
    /\ is_bare_group_row(file_as_hex[k + 1], file_as_ascii[k + 1])
    /\ file_as_hex[k + 1].hi = Len(file_as_bytes)

\* C7: a buffer of 16k bytes, k >= 1, is formatted without fault into
\* exactly k rows, row i holding the bytes 16(i-1) .. 16i - 1 as two groups
\* of 8 with the spacer between them.
C7_WholeRows ==
  (just_formatted /\ file_as_bytes # <<>> /\ Len(file_as_bytes) % (2 * GroupLen) = 0) =>
    LET k == Len(file_as_bytes) \div (2 * GroupLen) IN
    /\ fault = "none"
    /\ Len(file_as_hex) = k
    /\ Len(file_as_ascii) = k
    /\ \A i \in 1..k :
         /\ is_full_row(file_as_hex[i], file_as_ascii[i])
         /\ row_paired(file_as_hex[i], file_as_ascii[i])
         /\ file_as_hex[i].lo = 2 * GroupLen * (i - 1)

\* A buffer of 48 bytes has just been formatted.
C7_Witness ==
  /\ just_formatted /\ fault = "none"
  /\ Len(file_as_bytes) = 6 * GroupLen

\* C8: on a populated store, move_up(n) followed by move_down(n) with
\* 0 < n < length completes and leaves both row vectors exactly as they
\* were before the two calls.
C8_RoundTrip ==
  ( /\ Len(calls) = 2
    /\ calls[1].op = "move_up"
    /\ calls[2].op = "move_down"
    /\ amount(calls[1]) = amount(calls[2])
    /\ amount(calls[1]) > 0
    /\ amount(calls[1]) < Len(calls[1].hex) ) =>
    /\ fault = "none"
    /\ file_as_hex = calls[1].hex
    /\ file_as_ascii = calls[1].ascii

\* move_up(n) and then move_down(n), with 2 <= n < length, the first of
\* which changed the order of the rows.
C8_Witness ==
  /\ fault = "none"
  /\ Len(calls) = 2
  /\ calls[1].op = "move_up"
  /\ calls[2].op = "move_down"
  /\ amount(calls[1]) = amount(calls[2])
  /\ amount(calls[1]) >= 2
  /\ amount(calls[1]) < Len(calls[1].hex)
  /\ calls[2].hex # calls[1].hex

\* C9: on a store of length >= 1, a shift by the length completes and
\* restores the order; a single-step shift is never refused; and a run of
\* length single-step shifts in one direction shows every row in the first
\* position exactly once and ends in the arrangement it started from.
C9_Circular ==
  /\ ( /\ calls # <<>>
       /\ shifted(last_call)
       /\ Len(last_call.hex) >= 1
       /\ amount(last_call) = Len(last_call.hex) ) =>
       /\ fault = "none"
       /\ file_as_hex = last_call.hex
       /\ file_as_ascii = last_call.ascii
  /\ ( /\ calls # <<>>
       /\ shifted(last_call)
       /\ Len(last_call.hex) >= 1
       /\ amount(last_call) = 1 ) =>
       /\ fault = "none"
       /\ file_as_hex =
            IF last_call.op = "move_up"
            THEN last_to_front(last_call.hex, 1 % Len(last_call.hex))
            ELSE first_to_back(last_call.hex, 1 % Len(last_call.hex))
  /\ ( streak.count >= 1 /\ streak.count = Len(file_as_hex) ) =>
       /\ file_as_hex = streak.hex0
       /\ file_as_ascii = streak.ascii0
       /\ Cardinality(range(streak.firsts)) = Len(file_as_hex)
       /\ range(streak.firsts) = {file_as_hex[i].lo : i \in DOMAIN file_as_hex}

\* A run of single-step shifts has gone once around a store of three or
\* more rows.
C9_Witness ==
  /\ fault = "none"
  /\ Len(file_as_hex) >= 3
  /\ streak.count = Len(file_as_hex)

\* C10: move_up(n) / move_down(n) with n larger than the number of rows
\* (of a populated store) completes without fault and rotates by n modulo
\* the length, and n = 0 is a no-op.
C10_AnyAmount ==
  /\ ( /\ calls # <<>>
       /\ shifted(last_call)
       /\ amount(last_call) = 0 ) =>
       /\ fault = "none"
       /\ file_as_hex = last_call.hex
       /\ file_as_ascii = last_call.ascii
  /\ ( /\ calls # <<>>
       /\ shifted(last_call)
       /\ Len(last_call.hex) >= 1
       /\ amount(last_call) > Len(last_call.hex) ) =>
       LET m == amount(last_call) % Len(last_call.hex) IN
       /\ fault = "none"
       /\ file_as_hex =
            IF last_call.op = "move_up"
            THEN last_to_front(last_call.hex, m)
            ELSE first_to_back(last_call.hex, m)
       /\ file_as_ascii =
            IF last_call.op = "move_up"
            THEN last_to_front(last_call.ascii, m)
            ELSE first_to_back(last_call.ascii, m)

\* C11: when the file cannot be read, open_file returns with both row
\* vectors empty and the program goes on to the event loop: no run ends in
\* the panic of an unwrap of a failed read.
C11_LoadFailureTolerated == fault # "unwrap_read"

\* The digits of uppercase hexadecimal, '0'..'9' and 'A'..'F'.
UpperHexDigits ==
  <<48, 49, 50, 51, 52, 53, 54, 55, 56, 57, 65, 66, 67, 68, 69, 70>>

\* A hex text of a row shows exactly the bytes bs: for each byte two
\* uppercase hexadecimal digits and one space, and nothing else but the
\* three spaces after the eighth byte.
hex_shows(text, bs) ==
  /\ Len(text) = 3 * Len(bs) + 3
  /\ \A j \in 1..Len(bs) :
       LET at == 3 * (j - 1) + (IF j > 8 THEN 3 ELSE 0) IN
       /\ text[at + 1] = UpperHexDigits[(bs[j] \div 16) + 1]
       /\ text[at + 2] = UpperHexDigits[(bs[j] % 16) + 1]
       /\ text[at + 3] = 32
  /\ \A j \in 25..27 : text[j] = 32

\* C12: in every row, every byte of the row's span gives exactly two
\* uppercase hexadecimal digits and a space in the hex text, and exactly one
\* character in the ascii text: the byte itself when it is in 0x20..0x7E
\* and '.' otherwise.
C12_PerByte ==
  \A i \in RowIndices :
    /\ hex_shows(file_as_hex[i].text,
                 span_bytes(file_as_hex[i].lo, file_as_hex[i].hi))
    /\ ascii_shows(file_as_ascii[i].text,
                   span_bytes(file_as_ascii[i].lo, file_as_ascii[i].hi))

\* A row of the 16 bytes 0x7E, 0x7F, ..., across the end of the printable
\* range.
C12_Witness ==
  /\ fault = "none"
  /\ Len(file_as_hex) = 1
  /\ Len(file_as_bytes) = 16
  /\ file_as_bytes[1] = 126

C14_RotationIndices ==
  ( /\ calls # <<>>
    /\ shifted(last_call)
    /\ amount(last_call) > 0
    /\ amount(last_call) <= Len(last_call.hex) ) =>
    LET n == amount(last_call)
        len == Len(last_call.hex)
        from(i) == IF last_call.op = "move_up"
                   THEN ((i - 1 - n + len) % len) + 1
                   ELSE ((i - 1 + n) % len) + 1
    IN
    /\ fault = "none"
    /\ Len(file_as_hex) = len
    /\ Len(file_as_ascii) = len
    /\ \A i \in 1..len :
         /\ file_as_hex[i] = last_call.hex[from(i)]
         /\ file_as_ascii[i] = last_call.ascii[from(i)]
    /\ IF last_call.op = "move_up"
       THEN SubSeq(file_as_hex, 1, n) = SubSeq(last_call.hex, len - n + 1, len)
       ELSE SubSeq(file_as_hex, len - n + 1, len) = SubSeq(last_call.hex, 1, n)

\* move_up(n) with 2 <= n < length has just been called.
C14_Witness ==
  /\ fault = "none"
  /\ calls # <<>>
  /\ last_call.op = "move_up"
  /\ amount(last_call) >= 2
  /\ amount(last_call) < Len(last_call.hex)
  /\ file_as_hex # last_call.hex

\* C15: in every state after a load, whatever shifts have been called,
\* both row vectors are the vectors open_file left, rotated by one and the
\* same offset: no row is added, removed, duplicated or reordered, and the
\* row count stays what it was after the load.
C15_SameRotation ==
  loaded # None =>
    LET o == loaded[1] IN
    /\ Len(file_as_hex) = Len(o.hex)
    /\ Len(file_as_ascii) = Len(o.ascii)
    /\ IF o.hex = <<>>
       THEN file_as_hex = <<>> /\ file_as_ascii = <<>>
       ELSE \E k \in 0..(Len(o.hex) - 1) :
              /\ file_as_hex = first_to_back(o.hex, k)
              /\ file_as_ascii = first_to_back(o.ascii, k)

\* Two shifts in a row on a loaded store of three or more rows have left
\* it in another order than open_file did.
C15_Witness ==
  /\ fault = "none"
  /\ loaded # None
  /\ Len(calls) = 2
  /\ shifted(calls[1]) /\ shifted(calls[2])
  /\ Len(file_as_hex) >= 3
  /\ file_as_hex # loaded[1].hex

C17_OneDrawPerEvent ==
  /\ [] /\ (pc = "read" /\ fault = "none") =>
             /\ draws = 1
             /\ screen = Some([hex |-> file_as_hex, ascii |-> file_as_ascii])
        /\ pc = "draw" => draws = 0
        /\ pc = "main" => (screen = None /\ draws = 0)
  /\ [][ pc # "main" => UNCHANGED <<file_as_bytes, file_blueprint, loaded>> ]_vars

\* The Down key has been handled on a store of three or more rows and the
\* rotated rows have been drawn.
C17_Witness ==
  /\ fault = "none"
  /\ pc = "read"
  /\ event = "Down"
  /\ Len(file_as_hex) >= 3
  /\ loaded # None
  /\ screen # None
  /\ screen[1].hex # loaded[1].hex

\* C18: after open_file has been called on an App that already held
\* rows, the two row vectors hold exactly the rows of the buffer now in
\* file_as_bytes: paired rows whose spans start at the buffer's first byte
\* and follow one another, none of them left from the earlier load.
C18_ReloadReplaces ==
  (pc = "reloaded" /\ fault = "none") =>
    /\ DOMAIN file_as_hex = DOMAIN file_as_ascii
    /\ \A i \in DOMAIN file_as_hex :
         /\ row_paired(file_as_hex[i], file_as_ascii[i])
         /\ file_as_hex[i].lo = IF i = 1 THEN 0 ELSE file_as_hex[i - 1].hi

\* The bytes that the hex texts of a row vector encode, row after row.
RECURSIVE rendered_bytes(_)
rendered_bytes(rows) ==
  IF rows = <<>> THEN <<>>
  ELSE hex_bytes(Head(rows).text) \o rendered_bytes(Tail(rows))

\* C19: whenever open_file has formatted a buffer to the end, the bytes
\* rendered by the rows, taken in row order, are the whole buffer: every
\* byte is rendered once, in buffer order, and none is dropped.
C19_AllBytesRendered ==
  (just_formatted /\ fault = "none") =>
    /\ rendered_bytes(file_as_hex) = file_as_bytes
    /\ \A i \in DOMAIN file_as_hex :
         file_as_hex[i].lo = IF i = 1 THEN 0 ELSE file_as_hex[i - 1].hi

====
